---- MODULE Spec2Model ----
(***************************************************************************)
(* Model of probe/dmr.py: DmrProbe, the probe that batches the queries of  *)
(* its tests into one composite management request, posts it, and decides  *)
(* whether the reply can be handed to the tests.                           *)
(*                                                                         *)
(* Strings that the code takes apart (the netrc content, PORT_OFFSET) are  *)
(* sequences of one-character strings.  A JSON text is the tree it         *)
(* denotes, with the members of an object kept as the sequence of          *)
(* <<key, value>> pairs of the text, so that parsing into an OrderedDict   *)
(* is a real step.  Python's 0-based indices are kept in the interface     *)
(* (testIndex) and shifted by one where a TLA+ sequence is indexed.        *)
(***************************************************************************)
EXTENDS Integers, Sequences, FiniteSets, TLC

VARIABLES
    netrcOutput,    \* what load_probe_netrc_file prints (environment)
    portOffsetEnv,  \* the PORT_OFFSET environment variable
    tests,          \* self.tests
    pc,             \* where the probe is in its life
    host, user, password, port,   \* self.host, self.user, self.password, self.port
    log,            \* the calls made on self.logger, in order
    request,        \* the request createRequest returned last
    posted,         \* the outbound POSTs, in order
    response,       \* the response requests.post returned
    failChecks,     \* number of calls of failUnusableResponse
    reply,          \* the value sendRequest returned
    raised,         \* the exception that left the last call
    testInput,      \* the last getTestInput call and what it gave
    mgmtUser        \* the user ensure_probe_mgmt_user_exists was run for

vars == <<netrcOutput, portOffsetEnv, tests, pc, host, user, password, port,
          log, request, posted, response, failChecks, reply, raised, testInput,
          mgmtUser>>

-----------------------------------------------------------------------------
(* Bounds of the model *)

MaxTests == 2
MaxPairs == 2

-----------------------------------------------------------------------------
(* Python strings *)

Whitespace == {" ", "\t", "\n"}

RECURSIVE LStrip(_)
LStrip(s) ==
    IF s # <<>> /\ Head(s) \in Whitespace THEN LStrip(Tail(s)) ELSE s

RECURSIVE RStrip(_)
RStrip(s) ==
    IF s # <<>> /\ s[Len(s)] \in Whitespace
    THEN RStrip(SubSeq(s, 1, Len(s) - 1))
    ELSE s

Strip(s) == RStrip(LStrip(s))

RECURSIVE Split(_, _)
Split(s, sep) ==
    IF \E i \in 1..Len(s) : s[i] = sep
    THEN LET i == CHOOSE k \in 1..Len(s) :
                      s[k] = sep /\ \A j \in 1..(k - 1) : s[j] # sep
         IN  <<SubSeq(s, 1, i - 1)>> \o Split(SubSeq(s, i + 1, Len(s)), sep)
    ELSE <<s>>

Digits == {"0", "1", "2", "3", "4", "5", "6", "7", "8", "9"}

DigitValue(c) ==
    CASE c = "0" -> 0 [] c = "1" -> 1 [] c = "2" -> 2 [] c = "3" -> 3
      [] c = "4" -> 4 [] c = "5" -> 5 [] c = "6" -> 6 [] c = "7" -> 7
      [] c = "8" -> 8 [] c = "9" -> 9

IsInt(s) == s # <<>> /\ \A i \in 1..Len(s) : s[i] \in Digits

RECURSIVE IntOf(_)
IntOf(s) ==
    IF s = <<>> THEN 0
    ELSE 10 * IntOf(SubSeq(s, 1, Len(s) - 1)) + DigitValue(s[Len(s)])

-----------------------------------------------------------------------------
(* JSON texts and the Python values json() makes of them *)

NoJson == [type |-> "invalid", str |-> "", members |-> <<>>]
JNull == [type |-> "null", str |-> "", members |-> <<>>]
JStr(s) == [type |-> "string", str |-> s, members |-> <<>>]
JObj(m) == [type |-> "object", str |-> "", members |-> m]

PNone == [type |-> "None", str |-> "", items |-> <<>>]
PStr(s) == [type |-> "str", str |-> s, items |-> <<>>]
PDict(i) == [type |-> "dict", str |-> "", items |-> i]

\* d[k] = v on an OrderedDict: a key already there keeps its place
SetItem(items, k, v) ==
    IF \E i \in 1..Len(items) : items[i][1] = k
    THEN [i \in 1..Len(items) |-> IF items[i][1] = k THEN <<k, v>> ELSE items[i]]
    ELSE Append(items, <<k, v>>)

RECURSIVE OrderedDict(_)
OrderedDict(pairs) ==
    IF pairs = <<>> THEN <<>>
    ELSE LET n == Len(pairs)
         IN  SetItem(OrderedDict(SubSeq(pairs, 1, n - 1)), pairs[n][1], pairs[n][2])

\* json.loads(text, object_pairs_hook = OrderedDict), for a text that is JSON
RECURSIVE Parse(_)
Parse(j) ==
    CASE j.type = "null" -> PNone
      [] j.type = "string" -> PStr(j.str)
      [] j.type = "object" ->
            PDict(OrderedDict([i \in 1..Len(j.members) |->
                        <<j.members[i][1], Parse(j.members[i][2])>>]))

\* bool(v)
Truthy(v) ==
    CASE v.type = "None" -> FALSE
      [] v.type = "str" -> v.str # ""
      [] v.type = "dict" -> v.items # <<>>

HasKey(d, k) == \E i \in 1..Len(d.items) : d.items[i][1] = k
GetItem(d, k) == d.items[CHOOSE i \in 1..Len(d.items) : d.items[i][1] = k][2]
\* list(d.values())
Values(d) == [i \in 1..Len(d.items) |-> d.items[i][2]]

-----------------------------------------------------------------------------
(* Exceptions, log records, requests and responses *)

Exc(t, a) == [type |-> t, args |-> a]
NoException == Exc("None", <<>>)

LogRec(l, m, a) == [level |-> l, msg |-> m, args |-> a]

Url(h, p) == [scheme |-> "http", host |-> h, port |-> p, path |-> "/management"]

NoRequest ==
    ("operation" :> "") @@ ("address" :> <<>>) @@ ("json.pretty" :> 0)
        @@ ("steps" :> <<>>)

NoResponse == [received |-> FALSE, status_code |-> 0, text |-> NoJson]

NoTestInput == [called |-> FALSE, testIndex |-> 0, error |-> "None", value |-> PNone]

-----------------------------------------------------------------------------
(* The environment of a run: the inputs the model draws from *)

\* the output of load_probe_netrc_file: well formed, six fields only if a
\* leading or trailing blank counted, with an empty or blank field in each
\* place, too short, too long, and nothing at all
NetrcOutputs ==
    { <<"m", " ", "h", " ", "l", " ", "u", " ", "p", " ", "w", "\n">>,
      <<" ", "m", " ", "h", " ", "l", " ", "u", " ", "p">>,
      <<"m", " ", " ", "l", " ", "u", " ", "p", " ", "w">>,
      <<"m", " ", "\t", " ", "l", " ", "u", " ", "p", " ", "w">>,
      <<"m", " ", "h", " ", "l", " ", " ", "p", " ", "w">>,
      <<"m", " ", "h", " ", "l", " ", "\t", " ", "p", " ", "w">>,
      <<"m", " ", "h", " ", "l", " ", "u", " ", "p", " ">>,
      <<"m", " ", "h", " ", "l", " ", "u", " ", "p", " ", "\t">>,
      <<"m", " ", "h", " ", "l", " ", "u", " ", "p">>,
      <<"m", " ", "h", " ", "l", " ", "u", " ", "p", " ", "w", " ", "x">>,
      <<"m", " ", " ", "l", " ", " ", "p", " ", "w">>,
      <<>> }

Unset == [isSet |-> FALSE, value |-> <<>>]
EnvValue(s) == [isSet |-> TRUE, value |-> s]

PortOffsets == {Unset, EnvValue(<<"1", "0">>), EnvValue(<<"x">>), EnvValue(<<>>)}

\* the tests of the probe; a test is known by its name
TestNames == {"t1", "t2"}

SeqsUpTo(S, n) == UNION {[1..k -> S] : k \in 0..n}

TestLists == SeqsUpTo(TestNames, MaxTests)

\* Test.getQuery(): the query a test contributes to the batch
getQuery(t) ==
    [operation |-> "read-attribute",
     name |-> IF t = "t1" THEN "server-state" ELSE "deployment-status"]

\* the replies of the server
StatusCodes == {200, 403, 500}
StepKeys == {"step-1", "step-2"}
StepValues == {JStr("a"), JStr("b"), JNull}
ResultTexts ==
    {JObj(m) : m \in SeqsUpTo(StepKeys \X StepValues, MaxPairs)}
        \cup {JNull, JStr("x")}
OutcomeTexts == {JStr("failed"), JStr("success"), JStr("")}
BodyTexts ==
    {NoJson, JNull, JStr("x"), JObj(<<>>)}
        \cup {JObj(<< <<"outcome", o>> >>) : o \in OutcomeTexts}
        \cup {JObj(<< <<"result", r>> >>) : r \in ResultTexts}
        \cup {JObj(<< <<"outcome", o>>, <<"result", r>> >>) :
                  o \in OutcomeTexts, r \in ResultTexts}
Responses ==
    {[received |-> TRUE, status_code |-> c, text |-> b] :
         c \in StatusCodes, b \in BodyTexts}
        \cup {NoResponse}

-----------------------------------------------------------------------------
(* DmrProbe.__readConfig *)

BasePort == 9990
NetrcFields == 6

\* int(os.getenv('PORT_OFFSET', 0)); int() of a text that is no number raises
PortOffsetOk(e) == ~e.isSet \/ IsInt(e.value)
PortOffset(e) == IF e.isSet THEN IntOf(e.value) ELSE 0

\* os.popen(...).read().strip().split(" ")
netrc_file_content(out) == Split(Strip(out), " ")

\* mutant: the loop checks the user name and the password only
FirstEmptySkippingHost(vs) ==
    IF \E i \in 2..Len(vs) : vs[i] = <<>>
    THEN CHOOSE i \in 2..Len(vs) :
             vs[i] = <<>> /\ \A j \in 2..(i - 1) : vs[j] # <<>>
    ELSE 0

\* the first of host, user, password that is empty, 0 when none is
FirstEmpty(vs) ==
    IF \E i \in 1..Len(vs) : vs[i] = <<>>
    THEN CHOOSE i \in 1..Len(vs) :
             vs[i] = <<>> /\ \A j \in 1..(i - 1) : vs[j] # <<>>
    ELSE 0

\* the name the id() comparisons of the loop give the empty variable vs[i]:
\* the first of the three that is the same object; the empty string is one
\* object, and an empty and a non-empty string never are
MissingName(vs, i) ==
    LET same(j) == j = i \/ vs[j] = vs[i]
        k == CHOOSE j \in 1..Len(vs) : same(j) /\ \A l \in 1..(j - 1) : ~same(l)
    IN  CASE k = 1 -> "system's host name"
          [] k = 2 -> "user name"
          [] k = 3 -> "password"

\* what __readConfig leaves behind: the fields it assigned, what it logged,
\* and the exception that ended it
readConfig(out, env) ==
    LET unassigned == [host |-> <<>>, user |-> <<>>, password |-> <<>>, port |-> 0,
                       log |-> <<>>, exc |-> NoException]
    IN  IF ~PortOffsetOk(env)
        THEN [unassigned EXCEPT !.exc = Exc("ValueError", <<>>)]
        ELSE
        LET p == BasePort + PortOffset(env)
            c == netrc_file_content(out)
        IN  IF Len(c) # NetrcFields
            THEN [unassigned EXCEPT
                     !.port = p,
                     !.log = <<LogRec("error",
                                  "Unable to parse the content of DMR probe netrc file.",
                                  <<>>)>>,
                     !.exc = Exc("SystemExit", <<1>>)]
            ELSE
            LET h == Strip(c[2])
                u == Strip(c[4])
                w == Strip(c[6])
                e == FirstEmpty(<<h, u, w>>)
                assigned == [unassigned EXCEPT
                                !.host = h, !.user = u, !.password = w, !.port = p]
            IN  IF e # 0
                THEN [assigned EXCEPT
                         !.log = <<LogRec("error",
                                      "Unable to determine the %s to use for probe requests.",
                                      <<MissingName(<<h, u, w>>, e)>>)>>,
                         !.exc = Exc("SystemExit", <<1>>)]
                ELSE [assigned EXCEPT
                         !.log = <<LogRec("debug",
                                      "Probe request configuration set as follows",
                                      <<h, p, u>>)>>]

-----------------------------------------------------------------------------
(* DmrProbe.getTestInput, createRequest *)

\* mutant: the step result is looked up by the key "step-<n>"
getTestInputByKey(results, testIndex) ==
    LET key == CASE testIndex = 0 -> "step-1"
                 [] testIndex = 1 -> "step-2"
                 [] OTHER -> "step-3"
    IN  IF results.type # "dict"
        THEN [error |-> "TypeError", value |-> PNone]
        ELSE IF ~HasKey(results, "result")
        THEN [error |-> "KeyError", value |-> PNone]
        ELSE IF GetItem(results, "result").type # "dict"
        THEN [error |-> "AttributeError", value |-> PNone]
        ELSE IF ~HasKey(GetItem(results, "result"), key)
        THEN [error |-> "KeyError", value |-> PNone]
        ELSE [error |-> "None", value |-> GetItem(GetItem(results, "result"), key)]

\* list(results["result"].values())[testIndex], testIndex counted from 0
getTestInput(results, testIndex) ==
    IF results.type # "dict"
    THEN [error |-> "TypeError", value |-> PNone]
    ELSE IF ~HasKey(results, "result")
    THEN [error |-> "KeyError", value |-> PNone]
    ELSE IF GetItem(results, "result").type # "dict"
    THEN [error |-> "AttributeError", value |-> PNone]
    ELSE LET values == Values(GetItem(results, "result"))
         IN  IF testIndex >= Len(values)
             THEN [error |-> "IndexError", value |-> PNone]
             ELSE [error |-> "None", value |-> values[testIndex + 1]]

RECURSIVE Steps(_)
Steps(ts) ==
    IF ts = <<>> THEN <<>>
    ELSE Append(Steps(SubSeq(ts, 1, Len(ts) - 1)), getQuery(ts[Len(ts)]))

\* mutant: the steps are prepended instead of appended
RECURSIVE StepsReversed(_)
StepsReversed(ts) ==
    IF ts = <<>> THEN <<>>
    ELSE <<getQuery(ts[Len(ts)])>> \o StepsReversed(SubSeq(ts, 1, Len(ts) - 1))

createRequestReversed(ts) ==
    ("operation" :> "composite") @@ ("address" :> <<>>) @@ ("json.pretty" :> 1)
        @@ ("steps" :> StepsReversed(ts))

createRequest(ts) ==
    ("operation" :> "composite") @@ ("address" :> <<>>) @@ ("json.pretty" :> 1)
        @@ ("steps" :> Steps(ts))

-----------------------------------------------------------------------------
(* DmrProbe.failUnusableResponse, sendRequest *)

StatusOk == 200
StatusForbidden == 403

\* mutant: only 200 is exempt from the check
KnownGoodOnlyOk(code) == code = StatusOk

\* the status codes whose replies sendRequest hands on unexamined
KnownGood(code) == code = StatusOk \/ code = StatusForbidden

\* response.json(object_pairs_hook = OrderedDict) raises ValueError on a body
\* that is not JSON
JsonOk(resp) == resp.text.type # "invalid"
Json(resp) == Parse(resp.text)

\* mutant: the comparison of the outcome with "failed" is left out
UnusableExprAnyOutcome(respDict) ==
    IF ~Truthy(respDict) THEN "True"
    ELSE IF respDict.type # "dict" THEN "TypeError"
    ELSE IF ~HasKey(respDict, "outcome") THEN "KeyError"
    ELSE IF ~Truthy(GetItem(respDict, "outcome")) THEN "True"
    ELSE IF ~HasKey(respDict, "result") THEN "KeyError"
    ELSE IF ~Truthy(GetItem(respDict, "result")) THEN "True"
    ELSE "False"

\* not respDict or not respDict["outcome"] or respDict["outcome"] != "failed"
\*     or not respDict["result"]
\* evaluated left to right: "True", "False", or the exception a lookup raises
UnusableExpr(respDict) ==
    IF ~Truthy(respDict) THEN "True"
    ELSE IF respDict.type # "dict" THEN "TypeError"
    ELSE IF ~HasKey(respDict, "outcome") THEN "KeyError"
    ELSE IF ~Truthy(GetItem(respDict, "outcome")) THEN "True"
    ELSE IF GetItem(respDict, "outcome") # PStr("failed") THEN "True"
    ELSE IF ~HasKey(respDict, "result") THEN "KeyError"
    ELSE IF ~Truthy(GetItem(respDict, "result")) THEN "True"
    ELSE "False"

\* mutant: the loop runs over the step results instead of the tests
StepResultsCheckOverResults(respDict, ts) ==
    IF GetItem(respDict, "result").type # "dict" THEN "AttributeError"
    ELSE
    LET stepResults == Values(GetItem(respDict, "result"))
    IN  IF \E i \in 1..Len(stepResults) : ~Truthy(stepResults[i])
        THEN "True"
        ELSE "False"

\* the loop over enumerate(self.tests): "True" when it finds a falsy step
\* result, "False" when it ends without, or the exception it raises
StepResultsCheck(respDict, ts) ==
    IF GetItem(respDict, "result").type # "dict" THEN "AttributeError"
    ELSE
    LET stepResults == Values(GetItem(respDict, "result"))
        stops(index) == index >= Len(stepResults) \/ ~Truthy(stepResults[index + 1])
    IN  IF \E index \in 0..(Len(ts) - 1) : stops(index)
        THEN LET index == CHOOSE i \in 0..(Len(ts) - 1) :
                              stops(i) /\ \A j \in 0..(i - 1) : ~stops(j)
             IN  IF index >= Len(stepResults) THEN "IndexError" ELSE "True"
        ELSE "False"

\* the exception that leaves failUnusableResponse (NoException when it
\* returns) and what it logged
failUnusableResponse(resp, req, url, ts) ==
    LET respDict == IF JsonOk(resp) THEN Json(resp) ELSE PNone
        parseLog == IF JsonOk(resp) THEN <<>>
                    ELSE <<LogRec("debug",
                              "Probe request failed with no parseable json response",
                              <<>>)>>
        first == UnusableExpr(respDict)
        unusable == IF first = "False" THEN StepResultsCheck(respDict, ts) ELSE first
    IN  CASE unusable = "False" -> [exc |-> NoException, log |-> parseLog]
          [] unusable = "True" ->
                [exc |-> IF JsonOk(resp)
                         THEN Exc("Exception",
                                  <<"Probe request failed, code: ", resp.status_code,
                                    url, req, Json(resp)>>)
                         ELSE Exc("ValueError", <<>>),
                 log |-> Append(parseLog,
                                LogRec("error", "Probe request failed.  Status code: %s",
                                       <<resp.status_code>>))]
          [] OTHER -> [exc |-> Exc(unusable, <<>>), log |-> parseLog]

\* requests.post(url, json = request, headers, proxies, auth, verify)
Post(url, req, u, w) ==
    [url |-> url, json |-> req, accept |-> "text/plain", proxies |-> FALSE,
     auth |-> IF u # <<>> THEN <<"digest", u, w>> ELSE <<>>,
     verify |-> FALSE]

\* the outcome of sendRequest(req) when the server answers resp: the POSTs
\* made, the log records, whether failUnusableResponse ran, the exception
\* raised and the value returned.  The dump of the request at line 114 is
\* made only when DEBUG is enabled and carries nothing but the request; it
\* is not recorded in the log.
sendRequest(req, resp, h, p, u, w, ts) ==
    LET url == Url(h, p)
        posts == <<Post(url, req, u, w)>>
        sendLog == <<LogRec("info", "Sending probe request to %s", <<url>>)>>
    IN  IF ~resp.received
        THEN [posts |-> posts, log |-> sendLog, checks |-> 0,
              exc |-> Exc("ConnectionError", <<>>), ret |-> PNone]
        ELSE
        LET recvLog == Append(sendLog,
                              LogRec("debug", "Probe response: %s", <<resp.status_code>>))
            check == ~KnownGood(resp.status_code)
            fur == IF check THEN failUnusableResponse(resp, req, url, ts)
                   ELSE [exc |-> NoException, log |-> <<>>]
            exc == IF fur.exc # NoException THEN fur.exc
                   ELSE IF ~JsonOk(resp) THEN Exc("ValueError", <<>>)
                   ELSE NoException
        IN  [posts |-> posts, log |-> recvLog \o fur.log,
             checks |-> IF check THEN 1 ELSE 0,
             exc |-> exc,
             ret |-> IF exc = NoException THEN Json(resp) ELSE PNone]

-----------------------------------------------------------------------------
(* The probe as a state machine *)

Init ==
    /\ netrcOutput \in NetrcOutputs
    /\ portOffsetEnv \in PortOffsets
    /\ tests \in TestLists
    /\ pc = "new"
    /\ host = <<>> /\ user = <<>> /\ password = <<>> /\ port = 0
    /\ log = <<>>
    /\ request = NoRequest
    /\ posted = <<>>
    /\ response = NoResponse
    /\ failChecks = 0
    /\ reply = PNone
    /\ raised = NoException
    /\ testInput = NoTestInput
    /\ mgmtUser = <<>>

\* DmrProbe(tests): __init__ runs __readConfig
Construct ==
    /\ pc = "new"
    /\ LET c == readConfig(netrcOutput, portOffsetEnv)
       IN  /\ host' = c.host /\ user' = c.user /\ password' = c.password
           /\ port' = c.port
           /\ log' = log \o c.log
           /\ raised' = c.exc
           /\ mgmtUser' = IF c.exc = NoException THEN c.user ELSE <<>>
           /\ pc' = CASE c.exc = NoException -> "ready"
                      [] c.exc.type = "SystemExit" -> "exited"
                      [] OTHER -> "failed"
    /\ UNCHANGED <<netrcOutput, portOffsetEnv, tests, request, posted, response,
                   failChecks, reply, testInput>>

CreateRequest ==
    /\ pc \in {"ready", "built"}
    /\ request' = createRequest(tests)
    /\ pc' = "built"
    /\ UNCHANGED <<netrcOutput, portOffsetEnv, tests, host, user, password, port,
                   log, posted, response, failChecks, reply, raised, testInput,
                   mgmtUser>>

SendRequest ==
    /\ pc = "built"
    /\ \E resp \in Responses :
          LET r == sendRequest(request, resp, host, port, user, password, tests)
          IN  /\ response' = resp
              /\ posted' = posted \o r.posts
              /\ log' = log \o r.log
              /\ failChecks' = failChecks + r.checks
              /\ raised' = r.exc
              /\ reply' = r.ret
              /\ pc' = IF r.exc = NoException THEN "returned" ELSE "raised"
    /\ UNCHANGED <<netrcOutput, portOffsetEnv, tests, host, user, password, port,
                   request, testInput, mgmtUser>>

GetTestInput ==
    /\ pc = "returned"
    /\ \E testIndex \in 0..(Len(tests) - 1) :
          LET g == getTestInput(reply, testIndex)
          IN  testInput' = [called |-> TRUE, testIndex |-> testIndex,
                            error |-> g.error, value |-> g.value]
    /\ UNCHANGED <<netrcOutput, portOffsetEnv, tests, pc, host, user, password,
                   port, log, request, posted, response, failChecks, reply, raised,
                   mgmtUser>>

Next == Construct \/ CreateRequest \/ SendRequest \/ GetTestInput

Spec == Init /\ [][Next]_vars

-----------------------------------------------------------------------------
(* Vocabulary of the properties below *)

GoodCodes == {200, 403}

\* sendRequest has run and the server answered
Answered == pc \in {"returned", "raised"} /\ response.received
Detailed == Answered /\ response.status_code \notin GoodCodes
Parsed == response.text.type # "invalid"
Body == IF Parsed THEN Parse(response.text) ELSE PNone
NTests == Len(tests)

IsMapping(v) == v.type = "dict"
Has(v, k) == IsMapping(v) /\ \E i \in 1..Len(v.items) : v.items[i][1] = k
Field(v, k) == v.items[CHOOSE i \in 1..Len(v.items) : v.items[i][1] = k][2]

\* b is a mapping with outcome "failed" and a result that is a mapping
FailedWithResult(b) ==
    /\ Has(b, "outcome") /\ Has(b, "result")
    /\ Field(b, "outcome") = PStr("failed")
    /\ IsMapping(Field(b, "result"))
\* the entries of the result mapping of b, in key order
Entries(b) == Field(b, "result").items
\* getTestInput(b, i) has a value to give
HasEntry(b, i) ==
    /\ Has(b, "result") /\ IsMapping(Field(b, "result"))
    /\ i < Len(Entries(b))
FirstTruthy(e, n) == \A i \in 1..n : i <= Len(e) /\ Truthy(e[i][2])

\* the error the classifier raises for an unusable reply
ProbeRequestFailed ==
    /\ pc = "raised" /\ reply = PNone
    /\ raised.type = "Exception"
    /\ Len(raised.args) = 5
    /\ raised.args[1] = "Probe request failed, code: "
ErrorLogged ==
    /\ log # <<>>
    /\ log[Len(log)].level = "error"
    /\ log[Len(log)].msg = "Probe request failed.  Status code: %s"

-----------------------------------------------------------------------------
(* C1 *)

C1_Case(b) ==
    /\ Detailed /\ FailedWithResult(b)
    /\ Len(Entries(b)) = NTests
    /\ \A i \in 1..Len(Entries(b)) : Truthy(Entries(b)[i][2])

C1_Delivered(b) ==
    /\ pc = "returned" /\ raised = NoException /\ reply = b
    /\ \A i \in 0..(NTests - 1) :
          getTestInput(reply, i) = [error |-> "None", value |-> Entries(b)[i + 1][2]]
    /\ (testInput.called =>
           /\ testInput.error = "None"
           /\ testInput.value = Entries(b)[testInput.testIndex + 1][2])

\* C1 as claimed: for every test list of length N, a reply outside 200/403
\* with outcome "failed" and a result mapping of exactly N entries, all
\* truthy, raises nothing, is returned as parsed, and getTestInput(reply, i)
\* is the i-th value of result in key order, for every i in 0..N-1.
C1_AsClaimed ==
    LET b == Body IN C1_Case(b) => C1_Delivered(b)

\* C1 as amended: the same for every test list of length N >= 1 (with no
\* tests the result mapping of zero entries is empty, hence falsy, and the
\* reply is unusable).
C1_UsableInOrder ==
    LET b == Body IN (NTests >= 1 /\ C1_Case(b)) => C1_Delivered(b)

C1_Witness ==
    /\ NTests = 2 /\ response.status_code = 500 /\ C1_Case(Body)
    /\ Entries(Body)[1][2] # Entries(Body)[2][2]
    /\ Entries(Body)[1][1] = "step-2"
    /\ testInput.called /\ testInput.testIndex = 1
    /\ testInput.value = Entries(Body)[2][2]

-----------------------------------------------------------------------------
(* C2 *)

\* C2: a reply outside 200/403 with outcome "failed" and a truthy result in
\* which, for some test position i, the i-th entry is missing or falsy, ends
\* sendRequest with the 'Probe request failed' error and returns no reply.
C2_MissingOrFalsyIsUnusable ==
    LET b == Body
    IN  ( /\ Detailed /\ FailedWithResult(b)
          /\ Entries(b) # <<>>
          /\ ~FirstTruthy(Entries(b), NTests) )
        => ProbeRequestFailed

-----------------------------------------------------------------------------
(* C3 *)

\* C3: a reply outside 200/403 whose body parses is unusable, raising the
\* 'Probe request failed' error, whenever the parsed value is empty, the
\* outcome is missing, falsy or not "failed", or the result is missing or
\* falsy.
C3_MalformedIsUnusable ==
    LET b == Body
    IN  ( /\ Detailed /\ Parsed
          /\ \/ ~Truthy(b)
             \/ /\ IsMapping(b)
                /\ \/ ~Has(b, "outcome")
                   \/ ~Truthy(Field(b, "outcome"))
                   \/ Field(b, "outcome") # PStr("failed")
                   \/ ~Has(b, "result")
                   \/ ~Truthy(Field(b, "result")) )
        => ProbeRequestFailed

-----------------------------------------------------------------------------
(* C4 *)

\* C4: whenever a reply is classified unusable, the body that fails to parse
\* included, the error that leaves is the 'Probe request failed' error with
\* the status code, the endpoint, the request and the parsed body or a
\* no-parse indication, and an error-level line was logged before.
C4_UnusableRaisesProbeFailed ==
    (Detailed /\ (~Parsed \/ ErrorLogged))
    => /\ ProbeRequestFailed
       /\ ErrorLogged
       /\ raised.args[2] = response.status_code
       /\ raised.args[3] = Url(host, port)
       /\ raised.args[4] = request
       /\ Parsed => raised.args[5] = Body

-----------------------------------------------------------------------------
(* C5 *)

\* C5: for a reply with status 200 or 403 sendRequest never invokes
\* failUnusableResponse: whatever outcome and result are, the 'Probe request
\* failed' error is not raised and the parsed body is returned.
C5_KnownGoodBypassesCheck ==
    (Answered /\ response.status_code \in GoodCodes)
    => /\ failChecks = 0
       /\ raised.type # "Exception"
       /\ ~ErrorLogged
       /\ Parsed => (pc = "returned" /\ raised = NoException /\ reply = Body)

C5_Witness ==
    /\ Answered /\ response.status_code = 403 /\ pc = "returned"
    /\ Has(reply, "outcome") /\ Field(reply, "outcome") = PStr("success")
    /\ ~Has(reply, "result")
    /\ failChecks = 0

-----------------------------------------------------------------------------
(* C6 *)

KnownGoodParsed == Answered /\ response.status_code \in GoodCodes /\ Parsed

\* C6 as claimed: a reply with status 200 or 403 and a parseable body is
\* usable with per-step values in submission order: getTestInput(reply, i)
\* yields the i-th value of the result mapping for every i in 0..N-1.
C6_AsClaimed ==
    KnownGoodParsed
    => /\ pc = "returned"
       /\ \A i \in 0..(NTests - 1) :
             /\ HasEntry(reply, i)
             /\ getTestInput(reply, i) =
                    [error |-> "None", value |-> Entries(reply)[i + 1][2]]

\* C6 as amended: such a reply is returned as parsed, unexamined;
\* getTestInput(reply, i) yields the i-th value of its result mapping when
\* the reply is a mapping whose result is a mapping of more than i entries,
\* and raises otherwise.
C6_KnownGoodReturnedUnexamined ==
    KnownGoodParsed
    => /\ pc = "returned" /\ reply = Body /\ failChecks = 0
       /\ \A i \in 0..(NTests - 1) :
             IF HasEntry(reply, i)
             THEN getTestInput(reply, i) =
                      [error |-> "None", value |-> Entries(reply)[i + 1][2]]
             ELSE getTestInput(reply, i).error # "None"
       /\ (testInput.called =>
              IF HasEntry(reply, testInput.testIndex)
              THEN /\ testInput.error = "None"
                   /\ testInput.value = Entries(reply)[testInput.testIndex + 1][2]
              ELSE testInput.error # "None")

C6_Witness ==
    /\ KnownGoodParsed /\ response.status_code = 200 /\ NTests = 2
    /\ HasEntry(reply, 1)
    /\ Entries(reply)[1][1] = "step-2"
    /\ Entries(reply)[1][2] # Entries(reply)[2][2]
    /\ testInput.called /\ testInput.testIndex = 1 /\ testInput.error = "None"

-----------------------------------------------------------------------------
(* C7 *)

UsableFailedReply == pc = "returned" /\ response.status_code \notin GoodCodes

\* C7 as claimed: a reply outside 200/403 is usable only if its result
\* mapping has exactly one entry per submitted step; one with more than N
\* entries, the first N truthy, is never classified usable.
C7_AsClaimed ==
    UsableFailedReply => (FailedWithResult(reply) /\ Len(Entries(reply)) = NTests)

\* C7 as amended: such a reply is usable only if its result mapping has at
\* least one entry per submitted step, the first N truthy; one with fewer
\* than N entries is never classified usable, one with more than N entries,
\* the first N truthy, is.
C7_AtLeastOneEntryPerStep ==
    /\ UsableFailedReply
       => /\ FailedWithResult(reply)
          /\ Len(Entries(reply)) >= NTests
          /\ FirstTruthy(Entries(reply), NTests)
    /\ (Detailed /\ pc = "raised")
       => LET b == Body
          IN  ~( /\ FailedWithResult(b)
                 /\ Len(Entries(b)) > NTests
                 /\ FirstTruthy(Entries(b), NTests) )

C7_Witness ==
    /\ UsableFailedReply /\ FailedWithResult(reply)
    /\ NTests = 1 /\ Len(Entries(reply)) = 2
    /\ ~Truthy(Entries(reply)[2][2])

-----------------------------------------------------------------------------
(* C8 *)

Built == pc \in {"built", "returned", "raised"}

\* C8: for every test list, the empty one included, createRequest returns
\* operation "composite", address [], json.pretty 1 and as many steps as
\* tests, the i-th the i-th test's getQuery(); the test list is unchanged.
C8_CompositeOfQueriesInOrder ==
    /\ [](Built =>
            /\ DOMAIN request = {"operation", "address", "json.pretty", "steps"}
            /\ request["operation"] = "composite"
            /\ request["address"] = <<>>
            /\ request["json.pretty"] = 1
            /\ Len(request["steps"]) = Len(tests)
            /\ \A i \in 1..Len(tests) : request["steps"][i] = getQuery(tests[i]))
    /\ [][tests' = tests]_vars

C8_Witness ==
    /\ pc = "built" /\ Len(tests) = 2 /\ tests[1] # tests[2]
    /\ request["steps"][1] # request["steps"][2]

-----------------------------------------------------------------------------
(* C9 *)

ResolvedFields == Split(Strip(netrcOutput), " ")
NumericOffset == ~portOffsetEnv.isSet \/ IsInt(portOffsetEnv.value)

\* what is missing in the fields f of the credential content, "" if nothing
Missing(f) ==
    IF Len(f) # 6 THEN "six fields"
    ELSE IF Strip(f[2]) = <<>> THEN "system's host name"
    ELSE IF Strip(f[4]) = <<>> THEN "user name"
    ELSE IF Strip(f[6]) = <<>> THEN "password"
    ELSE ""

MissingIdentified(missing) ==
    /\ Len(log) = 1 /\ log[1].level = "error"
    /\ IF missing = "six fields"
       THEN log[1].msg = "Unable to parse the content of DMR probe netrc file."
       ELSE /\ log[1].msg = "Unable to determine the %s to use for probe requests."
            /\ log[1].args = <<missing>>

\* C9: with a numeric (or unset) port offset, a host, user or password that
\* is absent or empty, or a credential content that does not split into six
\* fields, makes construction terminate the process with an error log that
\* identifies what is missing, and no outbound request is ever sent;
\* conversely every request sent goes out with non-empty host, user and
\* password and port = 9990 + the configured offset.
C9_ConfigCheckedBeforeAnyRequest ==
    LET missing == Missing(ResolvedFields)
    IN  /\ (pc # "new" /\ NumericOffset /\ missing # "")
           => (pc = "exited" /\ raised.type = "SystemExit" /\ MissingIdentified(missing))
        /\ (pc \in {"new", "exited", "failed"} \/ missing # "") => posted = <<>>
        /\ posted # <<>>
           => /\ host # <<>> /\ user # <<>> /\ password # <<>>
              /\ port = 9990 + (IF portOffsetEnv.isSet THEN IntOf(portOffsetEnv.value)
                                ELSE 0)
              /\ \A k \in 1..Len(posted) :
                    /\ posted[k].url = Url(host, port)
                    /\ posted[k].auth = <<"digest", user, password>>

C9_Witness ==
    /\ pc = "exited" /\ Missing(ResolvedFields) = "user name"
    /\ log[1].args = <<"user name">>
    /\ posted = <<>>

C9_RequestSent ==
    /\ posted # <<>> /\ port = 10000 /\ host = <<"h">>

-----------------------------------------------------------------------------
(* C10 *)

\* C10: whenever sendRequest returns a reply, either the status code is 200
\* or 403, or the outcome is exactly "failed" and each of the first N values
\* of the non-empty result mapping is truthy; and each sendRequest call
\* issues exactly one POST, with no retry.
C10_OnlySoundRepliesDelivered ==
    /\ pc = "returned"
       => /\ raised = NoException /\ Parsed
          /\ \/ response.status_code \in GoodCodes
             \/ /\ FailedWithResult(reply)
                /\ Entries(reply) # <<>>
                /\ FirstTruthy(Entries(reply), NTests)
    /\ Len(posted) = (IF pc \in {"returned", "raised"} THEN 1 ELSE 0)
    /\ \A k \in 1..Len(posted) : posted[k].json = request

C10_Witness ==
    /\ pc = "returned" /\ response.status_code = 500
    /\ NTests = 2 /\ Len(Entries(reply)) = 2
    /\ Len(posted) = 1

====
